---------------------------- MODULE Spec2Model ----------------------------
(***************************************************************************)
(* Reserve-fund projection of src/workbook.py: the expense scheduler       *)
(* (calculate_yearly_expenses), the year-by-year simulator                 *)
(* (simulate_with_monthly_fees) and the fee optimizer                      *)
(* (optimize_monthly_fees), driven as the module's top level drives them   *)
(* (lines 540-546).                                                        *)
(*                                                                         *)
(* Numbers.  The program computes in Python floats; the model computes in  *)
(* integers.  Money is in whole currency units, a monthly fee in 1/FeeScale*)
(* of a unit (so the search's midpoints are exact), a growth factor in     *)
(* 1/FactorScale.  Every division truncates (\div).  Rounding of IEEE      *)
(* doubles is not represented.                                             *)
(***************************************************************************)
EXTENDS Integers, Sequences, FiniteSets, TLC

VARIABLES
    MODEL_ITEMS,            \* the expense catalog (line 43)
    PERIOD,                 \* simulation horizon in years (line 14)
    MONTHLY_FEES,           \* baseline monthly fee, in 1/FeeScale units (line 10)
    STARTING_BALANCE,       \* line 9
    MIN_RESERVE_BALANCE,    \* line 39
    cached_expenses,        \* get_expenses_with_loan_details._cached_expenses
    pc,                     \* position of the top level / optimize_monthly_fees
    lower_bound,            \* optimize_monthly_fees locals
    upper_bound,
    iteration,
    mid_fees,
    optimized_monthly_fees, \* line 541
    effective_monthly_fees, \* simulate_with_monthly_fees locals
    year,
    active_loans,
    future_expenses_by_year,
    simulation_data,
    min_balance,
    total_deficits,
    runs                    \* the (fee, data, min_balance, total_deficits) each finished call returned

globals == <<MODEL_ITEMS, PERIOD, MONTHLY_FEES, STARTING_BALANCE, MIN_RESERVE_BALANCE>>
optvars == <<pc, lower_bound, upper_bound, iteration, mid_fees, optimized_monthly_fees>>
simvars == <<effective_monthly_fees, year, active_loans, future_expenses_by_year,
             simulation_data, min_balance, total_deficits>>
vars == <<globals, cached_expenses, optvars, simvars, runs>>

---------------------------------------------------------------------------
(* Program constants *)
HOUSING == 1
FISCAL_YEAR == 2022
INFLATION_RATE == 5
LOAN_THRESHOLD_PERCENTAGE == 70
LOAN_RATE_PERCENTAGE == 10
LOAN_TERM_YEARS_MODEL == 5
SAFETY_NET_PERCENTAGE == 10
OPTIMIZATION_TOLERANCE == 1000
max_iterations == 20

(* Fixed-point scales of the model *)
FeeScale == 2 ^ 4
FactorScale == 10 ^ 3
GrowthScale == 10 ^ 6

(* Bounds *)
MaxHorizon == 4       \* scheduler inputs: period_years in 1..MaxHorizon, remaining_life in 0..MaxHorizon
MaxRedundancy == 3    \* scheduler inputs: redundancy in 0..MaxRedundancy
MaxItems == 2         \* scheduler inputs: catalogs of at most MaxItems items
MaxPeriod == 7        \* simulator: the longest PERIOD

NoCache == <<>>          \* the function attribute is not set yet (line 142)
Infinity == 2147483647   \* float('inf'), line 406: above every balance of the model

---------------------------------------------------------------------------
(* calculate_yearly_expenses, lines 80-124 *)

\* a slip in the loop bound: the "+ 1" of line 104 left out
Redundancies_NoPlusOne(item, period_years) ==
    IF item.redundancy <= 1
    THEN 1
    ELSE (period_years - item.remaining_life) \div item.redundancy

\* a slip in line 99: "< 1" for "<= 1", so an interval of 1 recurs every year
Redundancies_StrictOneTime(item, period_years) ==
    IF item.redundancy < 1
    THEN 1
    ELSE ((period_years - item.remaining_life) \div item.redundancy) + 1

\* line 99-104: the loop bound `redundancies`
Redundancies(item, period_years) ==
    IF item.redundancy <= 1
    THEN 1
    ELSE ((period_years - item.remaining_life) \div item.redundancy) + 1

\* a slip in line 112: "=" for "+=", so a year's total keeps only the last cost
PlaceOccurrence_Overwrite(acc, item, i, period_years) ==
    LET occurrence_year == item.remaining_life + (i * item.redundancy)
    IN  IF occurrence_year < period_years
        THEN [spendings |-> [acc.spendings EXCEPT ![occurrence_year] = item.cost],
              spending_data |-> [acc.spending_data EXCEPT ![occurrence_year] =
                  Append(@, [name |-> item.name,
                             cost |-> item.cost,
                             year |-> occurrence_year,
                             redundancy_at |-> i,
                             type |-> item.type,
                             is_sirs |-> item.is_sirs])]]
        ELSE acc

\* lines 108-122: one pass of the inner loop body, for occurrence index i
PlaceOccurrence(acc, item, i, period_years) ==
    LET occurrence_year == item.remaining_life + (i * item.redundancy)
    IN  IF occurrence_year < period_years
        THEN [spendings |-> [acc.spendings EXCEPT ![occurrence_year] = @ + item.cost],
              spending_data |-> [acc.spending_data EXCEPT ![occurrence_year] =
                  Append(@, [name |-> item.name,
                             cost |-> item.cost,
                             year |-> occurrence_year,
                             redundancy_at |-> i,
                             type |-> item.type,
                             is_sirs |-> item.is_sirs])]]
        ELSE acc

\* line 107: for i in range(redundancies), from index i on
RECURSIVE PlaceFrom(_, _, _, _, _)
PlaceFrom(acc, item, i, redundancies, period_years) ==
    IF i >= redundancies
    THEN acc
    ELSE PlaceFrom(PlaceOccurrence(acc, item, i, period_years), item, i + 1,
                   redundancies, period_years)

\* lines 89-122: one pass of the outer loop body
PlaceItem(acc, item, period_years) ==
    IF item.remaining_life >= period_years
    THEN acc
    ELSE PlaceFrom(acc, item, 0, Redundancies(item, period_years), period_years)

\* line 89: for item in model_items, from position n on
RECURSIVE PlaceItems(_, _, _, _)
PlaceItems(acc, model_items, n, period_years) ==
    IF n > Len(model_items)
    THEN acc
    ELSE PlaceItems(PlaceItem(acc, model_items[n], period_years), model_items, n + 1,
                    period_years)

calculate_yearly_expenses(model_items, period_years) ==
    PlaceItems([spendings |-> [y \in 0 .. period_years - 1 |-> 0],
                spending_data |-> [y \in 0 .. period_years - 1 |-> <<>>]],
               model_items, 1, period_years)

---------------------------------------------------------------------------
(* Inputs of the scheduler *)

\* the catalog's item at position n: its name is its position, its cost 3^n
ItemCost(n) == 3 ^ n

SchedItems(n) ==
    { [name |-> n, redundancy |-> k, remaining_life |-> f, cost |-> ItemCost(n),
       type |-> "Large", is_sirs |-> FALSE] :
        k \in 0 .. MaxRedundancy, f \in 0 .. MaxHorizon }

RECURSIVE SchedCatalogs(_)
SchedCatalogs(n) ==
    IF n = 0
    THEN { <<>> }
    ELSE SchedCatalogs(n - 1) \cup
         { Append(c, it) : c \in { d \in SchedCatalogs(n - 1) : Len(d) = n - 1 },
                           it \in SchedItems(n) }

---------------------------------------------------------------------------
(* State *)

InitRun ==
    /\ cached_expenses = NoCache
    /\ pc = "start"
    /\ lower_bound = 0
    /\ upper_bound = 0
    /\ iteration = 0
    /\ mid_fees = 0
    /\ optimized_monthly_fees = 0
    /\ effective_monthly_fees = 0
    /\ year = FISCAL_YEAR
    /\ active_loans = <<>>
    /\ future_expenses_by_year = <<>>
    /\ simulation_data = <<>>
    /\ min_balance = Infinity
    /\ total_deficits = 0
    /\ runs = <<>>

\* the scheduler alone, on every catalog and horizon within the bounds
InitSched ==
    /\ MODEL_ITEMS \in SchedCatalogs(MaxItems)
    /\ PERIOD \in 1 .. MaxHorizon
    /\ MONTHLY_FEES = 0
    /\ STARTING_BALANCE = 0
    /\ MIN_RESERVE_BALANCE = 0
    /\ InitRun

\* lines 142-144 (and line 650): the schedule of the catalog is computed and kept
FillCache ==
    /\ cached_expenses = NoCache
    /\ cached_expenses' = <<calculate_yearly_expenses(MODEL_ITEMS, PERIOD)>>
    /\ UNCHANGED <<globals, optvars, simvars, runs>>

NextSched == FillCache

SchedSpec == InitSched /\ [][NextSched]_vars

---------------------------------------------------------------------------
(* Arithmetic of the simulator *)

Max(a, b) == IF a >= b THEN a ELSE b
Min(a, b) == IF a <= b THEN a ELSE b

\* a * b / c, truncated, without forming a * b (a, b, c >= 0)
MulDiv(a, b, c) == ((a \div c) * b) + (((a % c) * b) \div c)

\* (1 + INFLATION_RATE / 100) ** y, in 1/FactorScale (lines 155 and 418)
RECURSIVE InflationFactor(_)
InflationFactor(y) ==
    IF y <= 0
    THEN FactorScale
    ELSE (InflationFactor(y - 1) * (100 + INFLATION_RATE)) \div 100

---------------------------------------------------------------------------
(* get_expenses_with_loan_details, lines 127-170, on a filled cache *)

\* lines 152-168: the loop over the year's items, from position j on
RECURSIVE ExpensesFrom(_, _, _, _)
ExpensesFrom(acc, items_this_year, j, year_index) ==
    IF j > Len(items_this_year)
    THEN acc
    ELSE LET item_data == items_this_year[j]
             inflated_cost == MulDiv(item_data.cost, InflationFactor(year_index), FactorScale)
             loan_amount == (inflated_cost * LOAN_THRESHOLD_PERCENTAGE) \div 100
             cash_amount == inflated_cost - loan_amount
             next ==
                 IF item_data.type = "Large"
                 THEN [total_expenses |-> acc.total_expenses + inflated_cost,
                       large_expenses |-> acc.large_expenses + inflated_cost,
                       loan_portion |-> acc.loan_portion + loan_amount,
                       cash_portion |-> acc.cash_portion + cash_amount]
                 ELSE [total_expenses |-> acc.total_expenses + inflated_cost,
                       large_expenses |-> acc.large_expenses,
                       loan_portion |-> acc.loan_portion,
                       cash_portion |-> acc.cash_portion + inflated_cost]
         IN  ExpensesFrom(next, items_this_year, j + 1, year_index)

get_expenses_with_loan_details(cache, yr) ==
    LET year_index == yr - FISCAL_YEAR
        zero == [total_expenses |-> 0, large_expenses |-> 0, loan_portion |-> 0,
                 cash_portion |-> 0]
    IN  IF 0 <= year_index /\ year_index \in DOMAIN cache.spendings
        THEN ExpensesFrom(zero, cache.spending_data[year_index], 1, year_index)
        ELSE zero

---------------------------------------------------------------------------
(* Loans, lines 248-279 and 347-367 *)

\* (1 + monthly_rate) ** n, in 1/GrowthScale (lines 261-265)
RECURSIVE GrowthBySteps(_, _)
GrowthBySteps(annual_interest_rate, n) ==
    IF n <= 0
    THEN GrowthScale
    ELSE (GrowthBySteps(annual_interest_rate, n - 1) * (1200 + annual_interest_rate))
             \div 1200

\* the value for the program's one rate and term, computed once
GrowthOfModelLoan == GrowthBySteps(LOAN_RATE_PERCENTAGE, LOAN_TERM_YEARS_MODEL * 12)

Growth(annual_interest_rate, n) ==
    IF annual_interest_rate = LOAN_RATE_PERCENTAGE /\ n = LOAN_TERM_YEARS_MODEL * 12
    THEN GrowthOfModelLoan
    ELSE GrowthBySteps(annual_interest_rate, n)

\* the monthly payment, in 1/FactorScale of a unit
calculate_monthly_loan_payment(principal, annual_interest_rate, loan_term_years) ==
    IF principal = 0 \/ annual_interest_rate = 0
    THEN 0
    ELSE LET number_of_payments == loan_term_years * 12
             growth == Growth(annual_interest_rate, number_of_payments) \div FactorScale
             one == GrowthScale \div FactorScale
             \* principal * (rate / 1200) * growth, times FactorScale, over (growth - 1)
             numerator == principal * annual_interest_rate * 10 * growth
             denominator == 12 * (growth - one)
         IN  numerator \div denominator

get_loan_payments(principal, annual_interest_rate, loan_term_years) ==
    (calculate_monthly_loan_payment(principal, annual_interest_rate, loan_term_years) * 12)
        \div FactorScale

\* a slip in line 358: "<=" for "<", so a loan is paid one year too long
LoanActive_OneYearLong(loan, yr) ==
    loan.start_year <= yr /\ yr <= loan.start_year + loan.term

\* line 358: the loan is active in year yr
LoanActive(loan, yr) ==
    loan.start_year <= yr /\ yr < loan.start_year + loan.term

\* lines 354-365: the loop over the ledger, from position j on
RECURSIVE LoanPaymentsFrom(_, _, _)
LoanPaymentsFrom(loans, j, yr) ==
    IF j > Len(loans)
    THEN 0
    ELSE (IF LoanActive(loans[j], yr)
          THEN get_loan_payments(loans[j].principal, LOAN_RATE_PERCENTAGE, loans[j].term)
          ELSE 0)
         + LoanPaymentsFrom(loans, j + 1, yr)

calculate_loan_payments_for_year(loans, yr) == LoanPaymentsFrom(loans, 1, yr)

---------------------------------------------------------------------------
(* Reserve contribution and safety net, lines 330-384 *)

\* lines 337-342: the loop over the years of future_expenses_by_year, from expense_year on
RECURSIVE ReserveFrom(_, _, _)
ReserveFrom(future, expense_year, current_year) ==
    IF expense_year \notin DOMAIN future
    THEN 0
    ELSE (IF expense_year > current_year /\ future[expense_year][1] > 0
          THEN LET years_until_expense == Max(expense_year - current_year, 1)
               IN  ((future[expense_year][1] * LOAN_THRESHOLD_PERCENTAGE) \div 100)
                       \div years_until_expense
          ELSE 0)
         + ReserveFrom(future, expense_year + 1, current_year)

calculate_reserve_contribution_for_future_expenses(future, current_year) ==
    ReserveFrom(future, FISCAL_YEAR, current_year)

\* a slip in line 375: the loan repayments left out of the sum
calculate_safety_net_target_NoRepayments(base_maintenance, future_expenses, loan_repayments) ==
    ((base_maintenance + future_expenses) * SAFETY_NET_PERCENTAGE) \div 100

calculate_safety_net_target(base_maintenance, future_expenses, loan_repayments) ==
    LET total_collections == base_maintenance + future_expenses + loan_repayments
    IN  (total_collections * SAFETY_NET_PERCENTAGE) \div 100

\* a slip in line 384: the max(0, ...) left out
calculate_safety_net_top_up_NoMax(safety_net_target, provisional_end_balance) ==
    safety_net_target - provisional_end_balance

\* a slip in line 384: a balance short of the target is topped up by the whole target
calculate_safety_net_top_up_WholeTarget(safety_net_target, provisional_end_balance) ==
    IF provisional_end_balance < safety_net_target THEN safety_net_target ELSE 0

calculate_safety_net_top_up(safety_net_target, provisional_end_balance) ==
    Max(0, safety_net_target - provisional_end_balance)

---------------------------------------------------------------------------
(* simulate_with_monthly_fees, lines 388-478 *)

LastYear == FISCAL_YEAR + PERIOD      \* the loops of lines 401 and 409 stop here

\* line 418, for a fee in 1/FeeScale
BaseMaintenance(fee, years_from_start) ==
    MulDiv(fee * HOUSING * 12, InflationFactor(years_from_start), FeeScale * FactorScale)

\* a slip in line 397: the ledger is not local to the call and is never emptied
StartSimulation_LedgerKept(fee) ==
    LET cache == IF cached_expenses = NoCache
                 THEN calculate_yearly_expenses(MODEL_ITEMS, PERIOD)
                 ELSE cached_expenses[1]
    IN  /\ cached_expenses' = <<cache>>
        /\ effective_monthly_fees' = fee
        /\ active_loans' = active_loans
        /\ future_expenses_by_year' =
               [yr \in FISCAL_YEAR .. LastYear - 1 |->
                   LET e == get_expenses_with_loan_details(cache, yr)
                   IN  <<e.large_expenses, e.total_expenses>>]
        /\ simulation_data' = <<>>
        /\ min_balance' = Infinity
        /\ total_deficits' = 0
        /\ year' = FISCAL_YEAR

\* lines 394-407: the call begins; the first call of the program fills the cache
StartSimulation(fee) ==
    LET cache == IF cached_expenses = NoCache
                 THEN calculate_yearly_expenses(MODEL_ITEMS, PERIOD)
                 ELSE cached_expenses[1]
    IN  /\ cached_expenses' = <<cache>>
        /\ effective_monthly_fees' = fee
        /\ active_loans' = <<>>
        /\ future_expenses_by_year' =
               [yr \in FISCAL_YEAR .. LastYear - 1 |->
                   LET e == get_expenses_with_loan_details(cache, yr)
                   IN  <<e.large_expenses, e.total_expenses>>]
        /\ simulation_data' = <<>>
        /\ min_balance' = Infinity
        /\ total_deficits' = 0
        /\ year' = FISCAL_YEAR

Running == pc \in {"baseline", "midpoint", "validate", "final"}

\* line 478: the call has run its last year and returns
Returned(at) == pc = at /\ year = LastYear

\* what the call returns
Result ==
    [fee |-> effective_monthly_fees, data |-> simulation_data,
     min_balance |-> min_balance, total_deficits |-> total_deficits,
     loans |-> active_loans]

\* a slip in line 424: a loan is opened in a year with nothing to finance
LedgerAfter_OpensEmptyLoan(loans, loan_portion, yr) ==
    IF loan_portion >= 0
    THEN Append(loans, [principal |-> loan_portion, start_year |-> yr,
                        term |-> LOAN_TERM_YEARS_MODEL])
    ELSE loans

\* a slip in lines 423-436: the loan is opened after the year's repayments are
\* computed, so that it is first repaid in the year after
LedgerAfter_RepaidFromNextYear(loans, loan_portion, yr) ==
    IF loan_portion > 0
    THEN Append(loans, [principal |-> loan_portion, start_year |-> yr + 1,
                        term |-> LOAN_TERM_YEARS_MODEL])
    ELSE loans

\* lines 423-430: the ledger after the year's loan, if any, is opened
LedgerAfter(loans, loan_portion, yr) ==
    IF loan_portion > 0
    THEN Append(loans, [principal |-> loan_portion, start_year |-> yr,
                        term |-> LOAN_TERM_YEARS_MODEL])
    ELSE loans

\* line 475
ActiveLoansCount(loans, yr) ==
    Cardinality({ j \in 1 .. Len(loans) :
        loans[j].start_year <= yr /\ yr < loans[j].start_year + loans[j].term })

\* a slip in line 414: every year opens with the starting balance
OpeningBalance_NotCarried(data, yr) == STARTING_BALANCE

\* lines 411-414
OpeningBalance(data, yr) ==
    IF yr = FISCAL_YEAR
    THEN STARTING_BALANCE
    ELSE data[Len(data)].closing_balance

\* a slip in line 452: the collections are subtracted
ClosingBalance_SignSlip(opening_balance, total_maintenance_collected, total_expenses, loan_repayments) ==
    opening_balance - total_maintenance_collected - total_expenses - loan_repayments

\* line 452
ClosingBalance(opening_balance, total_maintenance_collected, total_expenses, loan_repayments) ==
    opening_balance + total_maintenance_collected - total_expenses - loan_repayments

\* lines 411-475: the row of year yr of a call with the given fee, from the rows
\* before it, the year's expenses, the ledger after line 430, the reserve
\* contribution and the loan repayments
YearRecordOf(data, yr, fee, e, loans, reserve_contribution, loan_repayments) ==
    LET opening_balance == OpeningBalance(data, yr)
        years_from_start == yr - FISCAL_YEAR
        base_maintenance == BaseMaintenance(fee, years_from_start)
        collections_without_safety_net ==
            base_maintenance + reserve_contribution + loan_repayments
        provisional_end_balance ==
            opening_balance + collections_without_safety_net - e.total_expenses
                - loan_repayments
        safety_net_target ==
            calculate_safety_net_target(base_maintenance, e.total_expenses, loan_repayments)
        safety_net_top_up ==
            calculate_safety_net_top_up(safety_net_target, provisional_end_balance)
        total_maintenance_collected == collections_without_safety_net + safety_net_top_up
        closing_balance ==
            ClosingBalance(opening_balance, total_maintenance_collected,
                           e.total_expenses, loan_repayments)
    IN  [year |-> yr,
         opening_balance |-> opening_balance,
         base_maintenance |-> base_maintenance,
         future_expenses_in_year |-> e.total_expenses,
         reserve_contribution |-> reserve_contribution,
         loan_repayments |-> loan_repayments,
         collections_without_safety_net |-> collections_without_safety_net,
         provisional_end_balance |-> provisional_end_balance,
         safety_net_target |-> safety_net_target,
         safety_net_top_up |-> safety_net_top_up,
         total_maintenance_collected |-> total_maintenance_collected,
         closing_balance |-> closing_balance,
         large_expenses |-> e.large_expenses,
         loan_portion |-> e.loan_portion,
         cash_portion |-> e.cash_portion,
         active_loans_count |-> ActiveLoansCount(loans, yr)]

\* the row of the current year of the call in progress
YearRecord(e, loans, reserve_contribution, loan_repayments) ==
    YearRecordOf(simulation_data, year, effective_monthly_fees, e, loans,
                 reserve_contribution, loan_repayments)

\* lines 409-476: one pass of the loop over the years
SimulateYear ==
    /\ Running
    /\ year < LastYear
    /\ \E e \in { get_expenses_with_loan_details(cached_expenses[1], year) } :
       \E loans \in { LedgerAfter(active_loans, e.loan_portion, year) } :
       \E reserve_contribution \in
              { calculate_reserve_contribution_for_future_expenses(
                    future_expenses_by_year, year) } :
       \E loan_repayments \in { calculate_loan_payments_for_year(loans, year) } :
       \E row \in { YearRecord(e, loans, reserve_contribution, loan_repayments) } :
           /\ active_loans' = loans
           /\ min_balance' = Min(min_balance, row.closing_balance)
           /\ total_deficits' =
                  IF row.closing_balance < MIN_RESERVE_BALANCE
                  THEN total_deficits + (MIN_RESERVE_BALANCE - row.closing_balance)
                  ELSE total_deficits
           /\ simulation_data' = Append(simulation_data, row)
           /\ year' = year + 1
    /\ UNCHANGED <<globals, cached_expenses, optvars, effective_monthly_fees,
                   future_expenses_by_year, runs>>

---------------------------------------------------------------------------
(* optimize_monthly_fees, lines 481-534, and the top level, lines 540-546 *)

\* a slip in lines 497 and 513: ">" for ">=", a balance on the floor is refused
Feasible_Strict(mb, td) == mb > MIN_RESERVE_BALANCE /\ td <= OPTIMIZATION_TOLERANCE

\* lines 497 and 513: the feasibility predicate
Feasible(mb, td) == mb >= MIN_RESERVE_BALANCE /\ td <= OPTIMIZATION_TOLERANCE

\* lines 541, 491-496: the optimizer is entered and simulates the baseline fee
OptimizeStart ==
    /\ pc = "start"
    /\ lower_bound' = MONTHLY_FEES \div 2
    /\ upper_bound' = MONTHLY_FEES * 3
    /\ StartSimulation(MONTHLY_FEES)
    /\ pc' = "baseline"
    /\ UNCHANGED <<globals, iteration, mid_fees, optimized_monthly_fees, runs>>

\* lines 497-499 and 546: the baseline fee suffices; it is returned and simulated
BaselineSufficient ==
    /\ Returned("baseline")
    /\ Feasible(min_balance, total_deficits)
    /\ runs' = Append(runs, Result)
    /\ optimized_monthly_fees' = MONTHLY_FEES
    /\ StartSimulation(MONTHLY_FEES)
    /\ pc' = "final"
    /\ UNCHANGED <<globals, lower_bound, upper_bound, iteration, mid_fees>>

\* lines 497, 502-503: the baseline fee does not suffice; the search begins
BaselineInsufficient ==
    /\ Returned("baseline")
    /\ ~Feasible(min_balance, total_deficits)
    /\ runs' = Append(runs, Result)
    /\ iteration' = 0
    /\ pc' = "search"
    /\ UNCHANGED <<globals, cached_expenses, lower_bound, upper_bound, mid_fees,
                   optimized_monthly_fees, simvars>>

\* line 505
SearchContinues == iteration < max_iterations /\ (upper_bound - lower_bound) > FeeScale

\* lines 505-509: another pass; the midpoint is simulated
SearchStep ==
    /\ pc = "search"
    /\ SearchContinues
    /\ iteration' = iteration + 1
    /\ mid_fees' = (lower_bound + upper_bound) \div 2
    /\ StartSimulation((lower_bound + upper_bound) \div 2)
    /\ pc' = "midpoint"
    /\ UNCHANGED <<globals, lower_bound, upper_bound, optimized_monthly_fees, runs>>

\* lines 513-518: the bracket narrows to the midpoint
MidpointJudged ==
    /\ Returned("midpoint")
    /\ runs' = Append(runs, Result)
    /\ IF Feasible(min_balance, total_deficits)
       THEN upper_bound' = mid_fees /\ lower_bound' = lower_bound
       ELSE lower_bound' = mid_fees /\ upper_bound' = upper_bound
    /\ pc' = "search"
    /\ UNCHANGED <<globals, cached_expenses, iteration, mid_fees, optimized_monthly_fees,
                   simvars>>

\* lines 505, 520-524: the loop ends; the upper bound is the answer and is simulated
SearchEnds ==
    /\ pc = "search"
    /\ ~SearchContinues
    /\ optimized_monthly_fees' = upper_bound
    /\ StartSimulation(upper_bound)
    /\ pc' = "validate"
    /\ UNCHANGED <<globals, lower_bound, upper_bound, iteration, mid_fees, runs>>

\* line 529: the report divides by the baseline fee; with a baseline fee of 0 the
\* division raises ZeroDivisionError and the program ends there
OptimizeRaises ==
    /\ Returned("validate")
    /\ MONTHLY_FEES = 0
    /\ runs' = Append(runs, Result)
    /\ pc' = "raised"
    /\ UNCHANGED <<globals, cached_expenses, lower_bound, upper_bound, iteration, mid_fees,
                   optimized_monthly_fees, simvars>>

\* lines 526-534 and 546: the answer is returned and simulated once more
OptimizeReturns ==
    /\ Returned("validate")
    /\ MONTHLY_FEES # 0
    /\ runs' = Append(runs, Result)
    /\ StartSimulation(optimized_monthly_fees)
    /\ pc' = "final"
    /\ UNCHANGED <<globals, lower_bound, upper_bound, iteration, mid_fees,
                   optimized_monthly_fees>>

\* line 546: data, min_balance_achieved, total_deficits_achieved are bound
FinalRunReturns ==
    /\ Returned("final")
    /\ runs' = Append(runs, Result)
    /\ pc' = "done"
    /\ UNCHANGED <<globals, cached_expenses, lower_bound, upper_bound, iteration, mid_fees,
                   optimized_monthly_fees, simvars>>

---------------------------------------------------------------------------
(* Inputs of the program *)

Item(n, type, cost, remaining_life, redundancy) ==
    [name |-> n, redundancy |-> redundancy, remaining_life |-> remaining_life,
     cost |-> cost, type |-> type, is_sirs |-> FALSE]

SimCatalogs ==
    { <<>>,
      << Item(1, "Large", 400, 0, 0) >>,
      << Item(1, "Large", 300, 1, 2), Item(2, "Small", 100, 0, 3) >>,
      << Item(1, "Large", 200, 1, 1), Item(2, "Large", 500, 1, 4) >> }

\* baseline monthly fees of 0, 4, 12 and 2^19 units
BaselineFees == { 0, 4 * FeeScale, 12 * FeeScale, (2 ^ 19) * FeeScale }

StartingBalances == { 0, 40 }

\* minimum reserve balances: the configured 0, a floor below it, and floors that
\* some, or no, fee of the bracket reaches
ReserveFloors == { -8, 0, 48, 150, 2 ^ 23, 2 ^ 27 }

Init ==
    /\ MODEL_ITEMS \in SimCatalogs
    /\ PERIOD \in { 2, MaxPeriod }
    /\ MONTHLY_FEES \in BaselineFees
    /\ STARTING_BALANCE \in StartingBalances
    /\ MIN_RESERVE_BALANCE \in ReserveFloors
    /\ InitRun

Next ==
    \/ OptimizeStart
    \/ SimulateYear
    \/ BaselineSufficient
    \/ BaselineInsufficient
    \/ SearchStep
    \/ MidpointJudged
    \/ SearchEnds
    \/ OptimizeRaises
    \/ OptimizeReturns
    \/ FinalRunReturns

Spec == Init /\ [][Next]_vars

\* the program is one thread that runs to its end: a step that can be taken is taken
FairSpec == Spec /\ WF_vars(Next)

---------------------------------------------------------------------------
(* The scheduler's claims, on the schedule FillCache stores *)

Filled == cached_expenses # NoCache
Schedule == cached_expenses[1]

\* the occurrences of the item named n that bucket y holds
OccurrencesIn(y, n) ==
    { j \in 1 .. Len(Schedule.spending_data[y]) : Schedule.spending_data[y][j].name = n }

\* the year offsets at which the item named n was placed, and how many times in all
PlacedOffsets(n) == { y \in 0 .. PERIOD - 1 : OccurrencesIn(y, n) # {} }

RECURSIVE PlacedCountUpTo(_, _)
PlacedCountUpTo(y, n) ==
    IF y < 0 THEN 0 ELSE Cardinality(OccurrencesIn(y, n)) + PlacedCountUpTo(y - 1, n)

PlacedCount(n) == PlacedCountUpTo(PERIOD - 1, n)

\* first, first+k, first+2k, ... below H
TermsBelow(first, k, H) == { y \in 0 .. H - 1 : y >= first /\ (y - first) % k = 0 }

RECURSIVE SumCost(_)
SumCost(bucket) ==
    IF bucket = <<>> THEN 0 ELSE Head(bucket).cost + SumCost(Tail(bucket))

Recurring(n) ==
    /\ MODEL_ITEMS[n].redundancy >= 2
    /\ MODEL_ITEMS[n].remaining_life < PERIOD

ExactMultiple(n) ==
    (PERIOD - MODEL_ITEMS[n].remaining_life) % MODEL_ITEMS[n].redundancy = 0

\* C1 (as stated): a recurring item with first < H is placed at exactly the
\* offsets first, first+k, ... below H, and the number of occurrences placed is
\* floor((H - first) / k) + 1, also when H - first is a multiple of k.
C1_AsStated ==
    Filled =>
        \A n \in 1 .. Len(MODEL_ITEMS) :
            Recurring(n) =>
                LET it == MODEL_ITEMS[n]
                IN  /\ PlacedOffsets(n) = TermsBelow(it.remaining_life, it.redundancy, PERIOD)
                    /\ PlacedCount(n) = ((PERIOD - it.remaining_life) \div it.redundancy) + 1

\* C1 (amended): a recurring item with first < H is placed once at each of the
\* offsets first, first+k, ... below H and nowhere else; the number placed is
\* floor((H - first) / k) + 1 when H - first is not a multiple of k, and
\* (H - first) / k, one less than the loop bound, when it is.
C1_PlacedOffsets ==
    Filled =>
        \A n \in 1 .. Len(MODEL_ITEMS) :
            Recurring(n) =>
                LET it == MODEL_ITEMS[n]
                    q == (PERIOD - it.remaining_life) \div it.redundancy
                IN  /\ PlacedOffsets(n) = TermsBelow(it.remaining_life, it.redundancy, PERIOD)
                    /\ \A y \in PlacedOffsets(n) : Cardinality(OccurrencesIn(y, n)) = 1
                    /\ PlacedCount(n) = IF ExactMultiple(n) THEN q ELSE q + 1

\* a recurring item placed twice whose H - first is a multiple of k
C1_Witness ==
    /\ Filled
    /\ \E n \in 1 .. Len(MODEL_ITEMS) :
        Recurring(n) /\ ExactMultiple(n) /\ PlacedCount(n) = 2

\* C2: every occurrence recorded has a year offset in [0, H), lies in the bucket
\* of exactly that offset, and spendings[y] is the sum of the costs in bucket y.
C2_BucketsAndTotals ==
    Filled =>
        /\ DOMAIN Schedule.spending_data = 0 .. PERIOD - 1
        /\ DOMAIN Schedule.spendings = 0 .. PERIOD - 1
        /\ \A y \in 0 .. PERIOD - 1 :
            /\ \A j \in 1 .. Len(Schedule.spending_data[y]) :
                LET occ == Schedule.spending_data[y][j]
                IN  occ.year = y /\ occ.year >= 0 /\ occ.year < PERIOD
            /\ Schedule.spendings[y] = SumCost(Schedule.spending_data[y])

\* a bucket that holds occurrences of two items
C2_Witness ==
    /\ Filled
    /\ \E y \in 0 .. PERIOD - 1 :
        /\ Len(Schedule.spending_data[y]) = 2
        /\ Schedule.spending_data[y][1].name # Schedule.spending_data[y][2].name

\* C3: a one-time item (redundancy <= 1, 0 included) has exactly one occurrence,
\* at its first-occurrence offset, when that offset is < H, and none otherwise.
C3_OneTimeItem ==
    Filled =>
        \A n \in 1 .. Len(MODEL_ITEMS) :
            LET it == MODEL_ITEMS[n]
            IN  it.redundancy <= 1 =>
                    IF it.remaining_life < PERIOD
                    THEN /\ PlacedOffsets(n) = { it.remaining_life }
                         /\ PlacedCount(n) = 1
                    ELSE PlacedCount(n) = 0

\* a catalog with a one-time item inside the horizon (interval 1) and one beyond it
C3_Witness ==
    /\ Filled
    /\ \E n, m \in 1 .. Len(MODEL_ITEMS) :
        /\ MODEL_ITEMS[n].redundancy = 1
        /\ MODEL_ITEMS[n].remaining_life < PERIOD - 1
        /\ PlacedCount(n) = 1
        /\ MODEL_ITEMS[m].redundancy = 0
        /\ MODEL_ITEMS[m].remaining_life >= PERIOD
        /\ PlacedCount(m) = 0

---------------------------------------------------------------------------
(* The simulator's claims, on the records of the call in progress *)

Records == 1 .. Len(simulation_data)

\* C4: the first year opens with the starting balance, each later year opens with
\* the closing balance of the year before, and there is exactly one record per
\* simulated year, in year order.
C4_BalanceCarriedForward ==
    Running =>
        /\ Len(simulation_data) = year - FISCAL_YEAR
        /\ year <= LastYear
        /\ \A j \in Records : simulation_data[j].year = FISCAL_YEAR + j - 1
        /\ \A j \in Records :
            simulation_data[j].opening_balance =
                IF j = 1 THEN STARTING_BALANCE ELSE simulation_data[j - 1].closing_balance

\* a finished run of the longest horizon from a positive starting balance whose
\* balance moved both in the first and in a later year
C4_Witness ==
    /\ Running
    /\ year = LastYear
    /\ PERIOD = MaxPeriod
    /\ STARTING_BALANCE > 0
    /\ simulation_data[1].closing_balance # STARTING_BALANCE
    /\ simulation_data[3].opening_balance # simulation_data[2].opening_balance

\* the loans of the ledger that are in their term in year yr
InTerm(yr) ==
    { j \in 1 .. Len(active_loans) :
        active_loans[j].start_year <= yr
        /\ yr < active_loans[j].start_year + active_loans[j].term }

RECURSIVE SumOfPayments(_)
SumOfPayments(js) ==
    IF js = {}
    THEN 0
    ELSE LET j == CHOOSE k \in js : TRUE
         IN  get_loan_payments(active_loans[j].principal, LOAN_RATE_PERCENTAGE,
                               active_loans[j].term)
             + SumOfPayments(js \ {j})

\* C5: in every year record active_loans_count is the number of loans of the
\* ledger with start_year <= y < start_year + term, and loan_repayments is the
\* sum of the annual payments of exactly those loans.
C5_ActiveLoans ==
    Running =>
        \A j \in Records :
            LET rec == simulation_data[j]
            IN  /\ rec.active_loans_count = Cardinality(InTerm(rec.year))
                /\ rec.loan_repayments = SumOfPayments(InTerm(rec.year))

\* a year in which one loan of the ledger has run out and two others are being repaid
C5_Witness ==
    /\ Running
    /\ \E j \in Records :
        /\ simulation_data[j].active_loans_count = 2
        /\ simulation_data[j].loan_repayments > 0
        /\ \E k \in 1 .. Len(active_loans) :
            active_loans[k].start_year + active_loans[k].term <= simulation_data[j].year

\* C6: safety_net_top_up is never negative, and in a year with a top-up the
\* closing balance equals (so is at least) the safety-net target.
C6_SafetyNetTopUp ==
    Running =>
        \A j \in Records :
            LET rec == simulation_data[j]
            IN  /\ rec.safety_net_top_up >= 0
                /\ rec.safety_net_top_up > 0 =>
                       /\ rec.closing_balance >= rec.safety_net_target
                       /\ rec.closing_balance = rec.safety_net_target

\* a year with a top-up, and a year without one whose balance ends above the target
C6_Witness ==
    /\ Running
    /\ \E j \in Records :
        /\ simulation_data[j].safety_net_top_up > 0
        /\ simulation_data[j].provisional_end_balance < 0
    /\ \E j \in Records :
        /\ simulation_data[j].safety_net_top_up = 0
        /\ simulation_data[j].closing_balance > simulation_data[j].safety_net_target

---------------------------------------------------------------------------
(* The optimizer's claims, on the results the simulator returned to it *)

\* the run met the floor and the tolerance
Sufficient(run) ==
    /\ run.min_balance >= MIN_RESERVE_BALANCE
    /\ run.total_deficits <= OPTIMIZATION_TOLERANCE

BaselineRun == runs[1]
Searched == Len(runs) >= 1 /\ ~Sufficient(BaselineRun)

\* the midpoints judged so far are runs 2 .. 1 + (number judged)
MidpointRuns == 2 .. Min(Len(runs), IF pc = "midpoint" THEN iteration ELSE iteration + 1)

InitialUpperBound == 3 * MONTHLY_FEES
InitialWidth == (3 * MONTHLY_FEES) - (MONTHLY_FEES \div 2)

\* C7 (as stated): when the search ran, the fee it returns is an upper bound that
\* an earlier simulation found to satisfy the predicate, so the simulation of
\* the returned fee satisfies the predicate.
C7_ReturnedFeeFeasible ==
    (Returned("validate") /\ ENABLED OptimizeReturns) =>
        /\ effective_monthly_fees = upper_bound
        /\ \E k \in 1 .. Len(runs) : runs[k].fee = upper_bound /\ Sufficient(runs[k])
        /\ min_balance >= MIN_RESERVE_BALANCE
        /\ total_deficits <= OPTIMIZATION_TOLERANCE

\* C8: when the baseline fee satisfies the predicate no midpoint is simulated and
\* the optimizer returns the baseline fee itself.
C8_BaselineReturned ==
    (Len(runs) >= 1 /\ Sufficient(BaselineRun)) =>
        /\ pc \in {"final", "done"}
        /\ iteration = 0
        /\ optimized_monthly_fees = MONTHLY_FEES
        /\ effective_monthly_fees = MONTHLY_FEES
        /\ Len(runs) <= 2
        /\ \A k \in 1 .. Len(runs) : runs[k].fee = MONTHLY_FEES

\* the program ended on a baseline whose lowest balance is exactly the floor
C8_Witness ==
    /\ pc = "done"
    /\ MIN_RESERVE_BALANCE > 0
    /\ BaselineRun.min_balance = MIN_RESERVE_BALANCE
    /\ optimized_monthly_fees = MONTHLY_FEES

C9_Bounded ==
    /\ iteration <= max_iterations
    /\ pc = "search" => Len(runs) = 1 + iteration
    /\ pc = "search" => (upper_bound - lower_bound) * (2 ^ iteration) = InitialWidth
    /\ pc = "midpoint" => (upper_bound - lower_bound) > FeeScale
    /\ pc = "validate" =>
           (iteration = max_iterations \/ (upper_bound - lower_bound) <= FeeScale)
    /\ (pc \in {"validate", "final", "done"} /\ Searched
            /\ \A k \in MidpointRuns : ~Sufficient(runs[k])) =>
           /\ optimized_monthly_fees = InitialUpperBound
           /\ InitialUpperBound # MONTHLY_FEES =>
                  \A k \in 1 .. 1 + iteration : runs[k].fee # InitialUpperBound

\* C9 (as stated): the search simulates at most 20 midpoints, the bracket halving
\* at each and the loop stopping once it is no wider than 1.0; when no midpoint
\* satisfies the predicate the answer is the initial upper bound 3*F0, which no
\* simulation had tried; and the optimizer returns it without raising an error,
\* the program running to its end.
C9_SearchTerminates == [](C9_Bounded /\ pc # "raised") /\ <>(pc = "done")

\* C10: of two runs of the same inputs, the one with the higher fee has every
\* closing balance, and its minimum balance, at least as high, and total deficits
\* no larger; so a fee above a sufficient fee is sufficient.
C10_MonotoneInFee ==
    \A a, b \in 1 .. Len(runs) :
        runs[a].fee < runs[b].fee =>
            /\ \A j \in 1 .. PERIOD :
                runs[b].data[j].closing_balance >= runs[a].data[j].closing_balance
            /\ runs[b].min_balance >= runs[a].min_balance
            /\ runs[b].total_deficits <= runs[a].total_deficits
            /\ Sufficient(runs[a]) => Sufficient(runs[b])

\* two runs, of which the one with the higher fee ends every year strictly higher and
\* alone meets the floor
C10_Witness ==
    \E a, b \in 1 .. Len(runs) :
        /\ runs[a].fee < runs[b].fee
        /\ \A j \in 1 .. PERIOD :
            runs[b].data[j].closing_balance > runs[a].data[j].closing_balance
        /\ runs[b].total_deficits < runs[a].total_deficits
        /\ ~Sufficient(runs[a])
        /\ Sufficient(runs[b])

---------------------------------------------------------------------------
(* The simulator's further claims, on the records of the call in progress *)

\* C11 (as stated): in every year the safety-net target is the safety-net
\* percentage of base maintenance + reserve contribution + loan repayments.
C11_AsStated ==
    Running =>
        \A j \in Records :
            LET rec == simulation_data[j]
            IN  rec.safety_net_target =
                    ((rec.base_maintenance + rec.reserve_contribution + rec.loan_repayments)
                        * SAFETY_NET_PERCENTAGE) \div 100

\* C11 (amended): in every year the safety-net target is the safety-net
\* percentage of base maintenance + that year's total expenses + loan repayments;
\* the reserve contribution takes no part in it.
C11_TargetOfOutgoings ==
    Running =>
        \A j \in Records :
            LET rec == simulation_data[j]
            IN  rec.safety_net_target =
                    ((rec.base_maintenance + rec.future_expenses_in_year + rec.loan_repayments)
                        * SAFETY_NET_PERCENTAGE) \div 100

\* a year with expenses, repayments and a reserve contribution, the contribution
\* differing from the expenses
C11_Witness ==
    /\ Running
    /\ \E j \in Records :
        /\ simulation_data[j].future_expenses_in_year > 0
        /\ simulation_data[j].loan_repayments > 0
        /\ simulation_data[j].reserve_contribution > 0
        /\ simulation_data[j].reserve_contribution
               # simulation_data[j].future_expenses_in_year
        /\ simulation_data[j].safety_net_target > 0

\* C12: in a run with an empty catalog, a positive fee and a starting balance that
\* is not negative, no loan is opened, loan_repayments and reserve_contribution
\* are 0 in every year, and each closing balance is strictly above the one before
\* it, the first strictly above the starting balance.
C12_EmptyCatalogGrows ==
    (Running /\ MODEL_ITEMS = <<>> /\ effective_monthly_fees > 0 /\ STARTING_BALANCE >= 0) =>
        /\ active_loans = <<>>
        /\ \A j \in Records :
            LET rec == simulation_data[j]
            IN  /\ rec.loan_portion = 0
                /\ rec.active_loans_count = 0
                /\ rec.loan_repayments = 0
                /\ rec.reserve_contribution = 0
                /\ rec.closing_balance >
                       (IF j = 1 THEN STARTING_BALANCE
                                 ELSE simulation_data[j - 1].closing_balance)

\* a finished run of the longest horizon over the empty catalog, from a positive
\* starting balance
C12_Witness ==
    /\ Running
    /\ MODEL_ITEMS = <<>>
    /\ effective_monthly_fees > 0
    /\ PERIOD = MaxPeriod
    /\ year = LastYear
    /\ STARTING_BALANCE > 0
    /\ simulation_data[PERIOD].closing_balance > simulation_data[1].closing_balance
    /\ simulation_data[1].closing_balance > STARTING_BALANCE

\* A call of simulate_with_monthly_fees taken by itself: its own schedule, computed
\* without the cache, an empty ledger and no rows, carried from yr to the last year.
RECURSIVE IsolatedFrom(_, _, _, _, _, _, _, _)
IsolatedFrom(fee, schedule, future, yr, data, loans, lowest, deficits) ==
    IF yr = LastYear
    THEN [fee |-> fee, data |-> data, min_balance |-> lowest,
          total_deficits |-> deficits, loans |-> loans]
    ELSE LET e == get_expenses_with_loan_details(schedule, yr)
             ledger == LedgerAfter(loans, e.loan_portion, yr)
             row == YearRecordOf(data, yr, fee, e, ledger,
                        calculate_reserve_contribution_for_future_expenses(future, yr),
                        calculate_loan_payments_for_year(ledger, yr))
         IN  IsolatedFrom(fee, schedule, future, yr + 1, Append(data, row), ledger,
                          Min(lowest, row.closing_balance),
                          IF row.closing_balance < MIN_RESERVE_BALANCE
                          THEN deficits + (MIN_RESERVE_BALANCE - row.closing_balance)
                          ELSE deficits)

IsolatedRun(fee) ==
    LET schedule == calculate_yearly_expenses(MODEL_ITEMS, PERIOD)
        future == [yr \in FISCAL_YEAR .. LastYear - 1 |->
                      LET e == get_expenses_with_loan_details(schedule, yr)
                      IN  <<e.large_expenses, e.total_expenses>>]
    IN  IsolatedFrom(fee, schedule, future, FISCAL_YEAR, <<>>, <<>>, Infinity, 0)

\* every call begins with no loans and no rows; what a call returns is what the
\* call taken by itself returns for that fee, so two calls at one fee return the
\* same; and the cache, once filled, holds the schedule of the catalog
C13_CallsIndependent ==
    /\ (Running /\ year = FISCAL_YEAR) =>
           /\ active_loans = <<>>
           /\ simulation_data = <<>>
           /\ min_balance = Infinity
           /\ total_deficits = 0
    /\ (Running /\ year = LastYear) => Result = IsolatedRun(effective_monthly_fees)
    /\ (Running /\ year = LastYear) =>
           simulation_data[1].opening_balance = STARTING_BALANCE
    /\ \A a, b \in 1 .. Len(runs) : runs[a].fee = runs[b].fee => runs[a] = runs[b]
    /\ Filled => Schedule = calculate_yearly_expenses(MODEL_ITEMS, PERIOD)

\* within a call the ledger only grows at its end, and a filled cache is never
\* written again
C13_OnlyAppends ==
    /\ (Running /\ pc' = pc) =>
           /\ Len(active_loans') >= Len(active_loans)
           /\ SubSeq(active_loans', 1, Len(active_loans)) = active_loans
    /\ Filled => cached_expenses' = cached_expenses

\* C13: every call of simulate_with_monthly_fees starts from an empty ledger and
\* the starting balance and only appends to its own ledger, so whatever calls
\* came before it, the records and summary values it returns for a fee are those
\* of a single isolated run at that fee; the cached schedule is never modified
\* after it is first filled.
C13_RunsIsolated == [] C13_CallsIndependent /\ [][C13_OnlyAppends]_vars

\* the validation call has returned: it came after a call that left loans in its
\* ledger, used the fee of an earlier midpoint, and its own ledger holds loans
C13_Witness ==
    /\ Returned("validate")
    /\ Len(runs) >= 3
    /\ runs[1].loans # <<>>
    /\ active_loans # <<>>
    /\ \E k \in 2 .. Len(runs) : runs[k].fee = effective_monthly_fees
    /\ runs[1].fee # effective_monthly_fees
    /\ runs[1].data # simulation_data

\* the loans of the ledger opened in year yr
OpenedIn(yr) == { k \in 1 .. Len(active_loans) : active_loans[k].start_year = yr }

\* the annual payment of the loan opened in the year of row i, 0 when none was
PaymentOf(i) ==
    IF simulation_data[i].loan_portion > 0
    THEN get_loan_payments(simulation_data[i].loan_portion, LOAN_RATE_PERCENTAGE,
                           LOAN_TERM_YEARS_MODEL)
    ELSE 0

RECURSIVE PaymentsOfYears(_, _)
PaymentsOfYears(first, last) ==
    IF first > last THEN 0 ELSE PaymentOf(first) + PaymentsOfYears(first + 1, last)

\* C14: a simulated year with a financed portion > 0 adds exactly one loan, of
\* that principal, to the ledger, and a year without adds none; the loan is added
\* before the year's repayments are computed, so loan_repayments of a year is the
\* sum of the annual payments of the loans opened in that year and in the
\* term - 1 years before it, and of no others.
C14_LoanRepaidOverItsTerm ==
    Running =>
        /\ \A k \in 1 .. Len(active_loans) :
               active_loans[k].start_year \in FISCAL_YEAR .. year - 1
        /\ \A j \in Records :
            LET rec == simulation_data[j]
            IN  /\ Cardinality(OpenedIn(rec.year)) = IF rec.loan_portion > 0 THEN 1 ELSE 0
                /\ \A k \in OpenedIn(rec.year) :
                       /\ active_loans[k].principal = rec.loan_portion
                       /\ active_loans[k].term = LOAN_TERM_YEARS_MODEL
                /\ rec.loan_repayments =
                       PaymentsOfYears(Max(1, j - LOAN_TERM_YEARS_MODEL + 1), j)

\* a loan opened in the first year is repaid in that year, is still repaid in the
\* last year of its term, in which no loan is opened, and is no longer repaid in
\* the year after
C14_Witness ==
    /\ Running
    /\ Len(simulation_data) > LOAN_TERM_YEARS_MODEL
    /\ simulation_data[1].loan_portion > 0
    /\ PaymentOf(1) > 0
    /\ simulation_data[1].loan_repayments = PaymentOf(1)
    /\ simulation_data[LOAN_TERM_YEARS_MODEL].loan_portion = 0
    /\ simulation_data[LOAN_TERM_YEARS_MODEL].loan_repayments >= PaymentOf(1)
    /\ simulation_data[LOAN_TERM_YEARS_MODEL + 1].loan_repayments
           = simulation_data[LOAN_TERM_YEARS_MODEL].loan_repayments - PaymentOf(1)

---------------------------------------------------------------------------
(* The floor of 0 *)

\* every closing balance is the larger of the provisional balance and the
\* safety-net target, which is not negative
C15_ClosingIsMax ==
    Running =>
        \A j \in Records :
            LET rec == simulation_data[j]
            IN  /\ rec.closing_balance =
                       Max(rec.provisional_end_balance, rec.safety_net_target)
                /\ rec.closing_balance >= rec.safety_net_target
                /\ rec.safety_net_target >= 0

\* C15: in every year closing_balance = max(provisional_end_balance,
\* safety_net_target) >= safety_net_target >= 0; so with a minimum reserve
\* balance <= 0 every run has min_balance >= the floor and total_deficits = 0,
\* the baseline fee satisfies the predicate, no midpoint is ever simulated and
\* the optimizer returns the baseline fee unchanged.
C15_NoSearchAtFloorZero ==
    /\ C15_ClosingIsMax
    /\ MIN_RESERVE_BALANCE <= 0 =>
           /\ total_deficits = 0
           /\ (Running /\ Records # {}) => min_balance >= MIN_RESERVE_BALANCE
           /\ \A k \in 1 .. Len(runs) :
                  /\ runs[k].min_balance >= MIN_RESERVE_BALANCE
                  /\ runs[k].total_deficits = 0
                  /\ Sufficient(runs[k])
                  /\ runs[k].fee = MONTHLY_FEES
           /\ pc \in {"start", "baseline", "final", "done"}
           /\ iteration = 0
           /\ pc \in {"final", "done"} => optimized_monthly_fees = MONTHLY_FEES

\* the program ended under the floor of 0 on the baseline fee, after a run with a
\* year whose provisional balance was negative and was topped up to the target and
\* a year that closed above its target with no top-up
C15_Witness ==
    /\ pc = "done"
    /\ MIN_RESERVE_BALANCE = 0
    /\ optimized_monthly_fees = MONTHLY_FEES
    /\ Len(runs) = 2
    /\ \E j \in Records :
        /\ simulation_data[j].provisional_end_balance < 0
        /\ simulation_data[j].closing_balance = simulation_data[j].safety_net_target
    /\ \E j \in Records :
        /\ simulation_data[j].safety_net_top_up = 0
        /\ simulation_data[j].closing_balance > simulation_data[j].safety_net_target

=============================================================================
